---- MODULE Spec2Model ----
(***************************************************************************)
(* Model of main.py of medical_ocr: the dataset lookup                     *)
(* (find_medicine_details), the extractor (extract_data_from_image) and    *)
(* the request handler (extract_medicine_data).                            *)
(*                                                                         *)
(* Values.  Python / JSON / pandas values are tagged records:              *)
(*   Null (None, JSON null), NaN (a blank cell of the CSV), Str(s) with s  *)
(*   a sequence of one-character strings, Num(n), List(items), Dict(d)     *)
(*   with d a function from keys to values.  A text whose characters no    *)
(*   operation of the program inspects (a uses text, a message) is kept    *)
(*   as one symbol: Text("Pain relief").                                   *)
(***************************************************************************)
EXTENDS Integers, Sequences, FiniteSets, TLC

VARIABLES
    df_medicines,        \* module global, main.py:22-29
    pc,                  \* position of the request in extract_medicine_data
    tmp_exists,          \* whether the file at tmp_path exists on disk
    environment,         \* what the upload, the image and the model do to this request
    extracted_data,      \* local of extract_medicine_data, main.py:170
    medicine_name,       \* local, main.py:176
    active_salts,        \* local, main.py:177
    additional_details,  \* local, main.py:180
    lookup_calls,        \* number of calls of find_medicine_details in this request
    response             \* what the request ends with

vars == <<df_medicines, pc, tmp_exists, environment, extracted_data, medicine_name,
          active_salts, additional_details, lookup_calls, response>>

----------------------------------------------------------------------------
\* Bounds of the model.

MaxRows == 2
MaxNameLen == 2
MaxSaltLen == 2
MaxSalts == 2

----------------------------------------------------------------------------
\* Values.

Null == [tag |-> "null"]
NaN == [tag |-> "nan"]
Str(s) == [tag |-> "str", s |-> s]
Text(t) == [tag |-> "str", s |-> <<t>>]
Num(n) == [tag |-> "num", n |-> n]
List(items) == [tag |-> "list", items |-> items]
Dict(d) == [tag |-> "dict", d |-> d]

\* A value that stands for "the call raised" (the exception propagates).
Raised == [tag |-> "raise"]

\* Python truthiness (if medicine_name:, if active_salts:, if additional_details:).
Truthy(v) ==
    CASE v.tag = "null" -> FALSE
      [] v.tag = "str"  -> Len(v.s) > 0
      [] v.tag = "num"  -> v.n # 0
      [] v.tag = "list" -> Len(v.items) > 0
      [] v.tag = "dict" -> DOMAIN v.d # {}
      [] OTHER          -> TRUE

\* All sequences over alphabet A of length at most n.
Strings(A, n) == UNION {[1..k -> A] : k \in 0..n}

----------------------------------------------------------------------------
\* Strings of characters.

Whitespace == {" ", "\n", "\t", "\r"}

\* str.lower() on the characters of the model.
Lower(c) == IF c = "A" THEN "a" ELSE c

RECURSIVE LStrip(_, _)
LStrip(s, ws) == IF s # <<>> /\ Head(s) \in ws THEN LStrip(Tail(s), ws) ELSE s

RECURSIVE RStrip(_, _)
RStrip(s, ws) ==
    IF s # <<>> /\ s[Len(s)] \in ws THEN RStrip(SubSeq(s, 1, Len(s) - 1), ws) ELSE s

\* str.strip() of a string of characters
Strip(s) == LStrip(RStrip(s, Whitespace), Whitespace)

\* salt.split('(')[0]: the part before the first "(" (all of it when there is none).
RECURSIVE SplitParenHead(_)
SplitParenHead(s) ==
    IF s = <<>> \/ Head(s) = "(" THEN <<>> ELSE <<Head(s)>> \o SplitParenHead(Tail(s))

\* cleaned_salt = salt.split('(')[0].strip(); a non-string has no split().
CleanedSalt(salt) ==
    IF salt.tag = "str" THEN Str(Strip(SplitParenHead(salt.s))) ELSE Raised

----------------------------------------------------------------------------
\* pandas Series.str.contains(pat, case=False, na=False): regex defaults to True, so
\* pat is compiled by re with IGNORECASE and searched in every cell.

\* re.compile(pat): over the characters of the model the only way not to compile is
\* an opening parenthesis, which nothing closes.
PatternCompiles(pat) == \A i \in 1..Len(pat) : pat[i] # "("

\* one pattern character against one character of the cell
CharMatches(p, c) == IF p = "." THEN c # "\n" ELSE Lower(p) = Lower(c)

\* re.search(pat, cell, IGNORECASE) for a pattern that compiles
RegexSearch(pat, cell) ==
    \E off \in 0..(Len(cell) - Len(pat)) :
        \A k \in 1..Len(pat) : CharMatches(pat[k], cell[off + k])

\* The .str accessor refuses a column that holds no string at all (a column of blank
\* cells is read as float64).
StrAccessorOK(rows, column) == \E i \in 1..Len(rows) : rows[i][column].tag = "str"

\* One cell of the mask: a blank cell gives na=False.
CellContains(cell, pat) == cell.tag = "str" /\ RegexSearch(pat, cell.s)

\* df[df[column].str.contains(pat, case=False, na=False)]: Raised, or the indices of
\* the rows kept, in the order of the dataset.
StrContains(rows, column, pat) ==
    IF ~StrAccessorOK(rows, column) THEN Raised
    ELSE IF pat.tag # "str" THEN Raised
    ELSE IF ~PatternCompiles(pat.s) THEN Raised
    ELSE [tag |-> "mask",
          idx |-> {i \in 1..Len(rows) : CellContains(rows[i][column], pat.s)}]

Min(S) == CHOOSE m \in S : \A x \in S : m <= x

----------------------------------------------------------------------------
\* find_medicine_details

NoMatch == Null

\* {"uses": first_match.get("Uses"), "side_effects": first_match.get("Side_effects")}
Details(row) == Dict([k \in {"uses", "side_effects"} |->
                        IF k = "uses" THEN row["Uses"] ELSE row["Side_effects"]])

\* for salt in active_salts: a list gives its entries, a string its characters, and
\* anything else cannot be iterated.
SaltsIter(salts) ==
    CASE salts.tag = "list" -> salts.items
      [] salts.tag = "str"  -> [i \in 1..Len(salts.s) |-> Str(<<salts.s[i]>>)]
      [] OTHER              -> <<>>

SaltsIterable(salts) == salts.tag \in {"list", "str"}

\* the loop of main.py:64-76 from entry i on
RECURSIVE SaltLoop(_, _, _)
SaltLoop(rows, salts, i) ==
    IF i > Len(salts) THEN NoMatch
    ELSE LET cleaned_salt == CleanedSalt(salts[i]) IN
         IF cleaned_salt = Raised THEN Raised
         ELSE IF ~Truthy(cleaned_salt) THEN SaltLoop(rows, salts, i + 1)
         ELSE LET salt_result == StrContains(rows, "Composition", cleaned_salt) IN
              IF salt_result = Raised THEN Raised
              ELSE IF salt_result.idx # {} THEN Details(rows[Min(salt_result.idx)])
              ELSE SaltLoop(rows, salts, i + 1)

\* main.py:62-77
SaltTier(rows, salts) ==
    IF ~Truthy(salts) THEN NoMatch
    ELSE IF ~SaltsIterable(salts) THEN Raised
    ELSE SaltLoop(rows, SaltsIter(salts), 1)

\* main.py:45-77
find_medicine_details(df, name, salts) ==
    IF ~df.loaded \/ Len(df.rows) = 0 THEN NoMatch
    ELSE IF Truthy(name)
         THEN LET name_result == StrContains(df.rows, "Medicine Name", name) IN
              IF name_result = Raised THEN Raised
              ELSE IF name_result.idx # {} THEN Details(df.rows[Min(name_result.idx)])
              ELSE SaltTier(df.rows, salts)
         ELSE SaltTier(df.rows, salts)

----------------------------------------------------------------------------
\* extract_data_from_image.  The model's response text is a sequence of items: a
\* character Ch(c), or Json(v), the serialisation of one complete JSON value v (an
\* object, an array, a string, null, a number) taken whole.

Ch(c) == [ch |-> c]
Json(v) == [json |-> v]
Chars(s) == [i \in 1..Len(s) |-> Ch(s[i])]

TextWhitespace == {Ch(c) : c \in Whitespace}

\* str.replace(old, ""): every non-overlapping occurrence, scanning from the left.
RECURSIVE Remove(_, _)
Remove(s, old) ==
    IF Len(s) < Len(old) THEN s
    ELSE IF SubSeq(s, 1, Len(old)) = old THEN Remove(SubSeq(s, Len(old) + 1, Len(s)), old)
    ELSE <<Head(s)>> \o Remove(Tail(s), old)

\* the backquote character (a string literal of the module cannot hold it)
BQ == "backquote"

\* the two fence markers: three backquotes, and three backquotes followed by json
Fence == Chars(<<BQ, BQ, BQ>>)
FenceJson == Chars(<<BQ, BQ, BQ, "j", "s", "o", "n">>)

\* cleaned_text = response.text.strip().replace(FenceJson, "").replace(Fence, "")
CleanText(text) ==
    Remove(Remove(LStrip(RStrip(text, TextWhitespace), TextWhitespace), FenceJson), Fence)

\* json.loads: whitespace around the one value is allowed, anything else is a
\* JSONDecodeError (the characters of the model spell no JSON value).
JsonLoads(text) ==
    LET t == LStrip(RStrip(text, TextWhitespace), TextWhitespace) IN
    IF Len(t) = 1 /\ "json" \in DOMAIN t[1]
    THEN [exc |-> "none", value |-> t[1].json]
    ELSE [exc |-> "JSONDecodeError"]

ParseFailureMessage == Text("Failed to parse model response as JSON.")
InternalErrorMessage == Text("An internal error occurred during processing.")
ErrorRecord(message) == Dict([k \in {"error"} |-> message])

\* the body of the try, main.py:101-119
ExtractorTry(outcome) ==
    IF outcome.fails # "none" THEN [exc |-> "Exception"]
    ELSE JsonLoads(CleanText(outcome.text))

\* mutant: the handler of Exception is missing, so the exception leaves the function
extract_data_from_image_NoCatchAll(outcome) ==
    LET r == ExtractorTry(outcome) IN
    CASE r.exc = "JSONDecodeError" -> ErrorRecord(ParseFailureMessage)
      [] r.exc = "Exception"       -> Raised
      [] OTHER                     -> r.value

\* main.py:98-126
extract_data_from_image(outcome) ==
    LET r == ExtractorTry(outcome) IN
    CASE r.exc = "JSONDecodeError" -> ErrorRecord(ParseFailureMessage)
      [] r.exc = "Exception"       -> ErrorRecord(InternalErrorMessage)
      [] OTHER                     -> r.value

----------------------------------------------------------------------------
\* The dataset: medicine_data.csv as read at start-up (main.py:22-29).  A row maps
\* the four columns to cells; a blank cell is NaN.

Columns == {"Medicine Name", "Composition", "Uses", "Side_effects"}

Row(name, composition, uses, side_effects) ==
    [k \in Columns |->
        CASE k = "Medicine Name" -> name
          [] k = "Composition"   -> composition
          [] k = "Uses"          -> uses
          [] OTHER               -> side_effects]

RowPool ==
    { Row(Str(<<"a", ".">>), Str(<<"a", " ">>), Text("Pain relief"), Text("Nausea")),
      Row(Str(<<"A", "a">>), Str(<<"A", ".">>), Text("Fever"), Text("Rash")),
      Row(NaN, Str(<<"a">>), NaN, NaN),
      Row(Str(<<"a", "(">>), NaN, Text("Cough"), NaN),
      Row(Str(<<".">>), Str(<<"(", ".">>), Text("Cold"), Text("Dizziness")) }

\* df_medicines = None when the file is not found, else the rows read.
DatasetAbsent == [loaded |-> FALSE, rows |-> <<>>]
Datasets == {DatasetAbsent} \cup {[loaded |-> TRUE, rows |-> r] : r \in Strings(RowPool, MaxRows)}

----------------------------------------------------------------------------
\* extract_medicine_data: responses and the steps after the extractor returned.

Sentinel == Text("No information found in our database.")

NoResponse == [kind |-> "none"]
Success(data) == [kind |-> "success", message |-> "Data extracted successfully", data |-> data]
HTTPException(status_code, detail) ==
    [kind |-> "HTTPException", status_code |-> status_code, detail |-> detail]
\* an exception other than HTTPException leaves the handler
Unhandled == [kind |-> "exception"]

ServerError == 500

ErrorKey == <<"e", "r", "r", "o", "r">>

SeqContains(s, pat) ==
    \E off \in 0..(Len(s) - Len(pat)) : SubSeq(s, off + 1, off + Len(pat)) = pat

\* "error" in extracted_data (main.py:172): a key of a dict, an entry of a list, a
\* substring of a string; any other value is not a container and the test raises.
InError(v) ==
    CASE v.tag = "dict" -> "error" \in DOMAIN v.d
      [] v.tag = "list" -> \E i \in 1..Len(v.items) : v.items[i] = Str(ErrorKey)
      [] v.tag = "str"  -> SeqContains(v.s, ErrorKey)
      [] OTHER          -> FALSE

InErrorRaises(v) == v.tag \notin {"dict", "list", "str"}

\* dict.get(key, default)
Get(d, key, default) == IF key \in DOMAIN d THEN d[key] ELSE default

\* mutant: keys the dict already holds keep their values (setdefault)
Update_KeepExisting(d, other) ==
    [k \in DOMAIN d \cup DOMAIN other |-> IF k \in DOMAIN d THEN d[k] ELSE other[k]]

\* dict.update(other)
Update(d, other) ==
    [k \in DOMAIN d \cup DOMAIN other |-> IF k \in DOMAIN other THEN other[k] ELSE d[k]]

\* mutant: the test for the error field is missing
CheckExtracted_NoErrorCheck(data) ==
    IF data = Raised \/ data.tag # "dict" THEN [next |-> "done", response |-> Unhandled]
    ELSE [next |-> "lookup",
          medicine_name |-> Get(data.d, "medicine_name", Null),
          active_salts  |-> Get(data.d, "active_salts", List(<<>>))]

\* main.py:172-177: what the handler does with the extractor's record before the
\* lookup: [next |-> "lookup", ...] with the two arguments, or the way it ends.
CheckExtracted(data) ==
    IF data = Raised \/ InErrorRaises(data) THEN [next |-> "done", response |-> Unhandled]
    ELSE IF InError(data)
         THEN IF data.tag = "dict"
              THEN [next |-> "done", response |-> HTTPException(ServerError, data.d["error"])]
              ELSE [next |-> "done", response |-> Unhandled]
    ELSE IF data.tag # "dict" THEN [next |-> "done", response |-> Unhandled]
    ELSE [next |-> "lookup",
          medicine_name |-> Get(data.d, "medicine_name", Null),
          active_salts  |-> Get(data.d, "active_salts", List(<<>>))]

\* mutant: a match whose uses cell is blank is treated as no match
Merge_BlankAsNoMatch(data, details) ==
    IF Truthy(details) /\ details.d["uses"] # NaN
    THEN Update(data, details.d)
    ELSE Update(data, [k \in {"uses", "side_effects"} |-> Sentinel])

\* main.py:183-187
Merge(data, details) ==
    IF Truthy(details)
    THEN Update(data, details.d)
    ELSE Update(data, [k \in {"uses", "side_effects"} |-> Sentinel])

\* main.py:183-189
MergeResponse(data, details) ==
    IF details = Raised THEN Unhandled ELSE Success(Dict(Merge(data.d, details)))

----------------------------------------------------------------------------
\* What the model may answer.

Base(name) ==
    [k \in {"medicine_name", "manufacturer", "expiry_date", "batch_number"} |->
        CASE k = "medicine_name" -> name
          [] k = "manufacturer"  -> Text("Acme")
          [] k = "expiry_date"   -> Null
          [] OTHER               -> Text("B1")]

With(d, key, value) == Update(d, [k \in {key} |-> value])

Record(name, salts) == With(Base(name), "active_salts", salts)

DocNames == {Null, Str(<<>>), Str(<<"a">>), Str(<<".">>), Str(<<"(">>)}
DocSalts == {Null, List(<<>>), List(<<Str(<<"a", " ", "(">>)>>),
             List(<<Str(<<"(", "a">>), Str(<<" ", ".">>)>>), List(<<Null>>)}

ModelUses == Text("uses written by the model")
ModelSideEffects == Text("side effects written by the model")

DocPool ==
    {Dict(Record(n, s)) : n \in DocNames, s \in DocSalts}
    \cup {Dict(Base(n)) : n \in {Null, Str(<<"a">>)}}
    \cup {Dict(With(With(Record(n, List(<<>>)), "uses", ModelUses),
                    "side_effects", ModelSideEffects)) : n \in {Null, Str(<<"a">>)}}
    \cup {Dict(With(Record(n, List(<<>>)), "uses", ModelUses)) : n \in {Null, Str(<<"a">>)}}
    \cup {Dict([k \in {"error"} |-> Text("text written by the model")]),
          Dict(With(Record(Str(<<"a">>), List(<<>>)), "error", Null))}
    \cup {List(<<>>), List(<<Str(ErrorKey)>>), Str(ErrorKey \o <<"s">>), Str(<<"o", "k">>),
          Null, Num(5)}

NL == <<"\n">>
Prefixes == {<<>>, Chars(<<" ">>), FenceJson \o Chars(NL), Fence \o Chars(NL),
             Chars(NL) \o FenceJson}
Suffixes == {<<>>, Chars(NL), Chars(NL) \o Fence, Chars(NL) \o Fence \o Chars(NL)}
Bodies == {<<Json(v)>> : v \in DocPool}
          \cup {<<>>, Chars(<<"s", "o">>), <<Json(Null), Json(Null)>>,
                <<Ch("j"), Json(List(<<>>))>>}

ResponseTexts == {p \o b \o q : p \in Prefixes, b \in Bodies, q \in Suffixes}

\* what happens inside the try of extract_data_from_image: a step raises (an
\* exception that is no JSONDecodeError), or the model's text is read
ExtractorOutcomes ==
    {[fails |-> f, text |-> <<>>] :
        f \in {"GenerativeModel", "Image.open", "generate_content", "response.text"}}
    \cup {[fails |-> "none", text |-> t] : t \in ResponseTexts}

\* what the handler can pass to find_medicine_details
Alphabet == {"a", "A", ".", "(", " "}
NameInputs == {Null, Num(5)} \cup {Str(s) : s \in Strings(Alphabet, MaxNameLen)}
SaltEntries == {Null} \cup {Str(s) : s \in Strings(Alphabet, MaxSaltLen)}
SaltInputs == {Null} \cup {List(l) : l \in Strings(SaltEntries, MaxSalts)}

----------------------------------------------------------------------------
\* The request.

NotYet == [tag |-> "unset"]

Init ==
    /\ df_medicines \in Datasets
    /\ pc = "start"
    /\ tmp_exists = FALSE
    /\ environment = [upload |-> "pending", extractor |-> NotYet]
    /\ extracted_data = NotYet
    /\ medicine_name = NotYet
    /\ active_salts = NotYet
    /\ additional_details = NotYet
    /\ lookup_calls = 0
    /\ response = NoResponse

\* main.py:164-166: the temporary file is created with delete=False and the upload is
\* copied into it; either step may raise, and neither is inside the try.
ReceiveUpload ==
    /\ pc = "start"
    /\ \E outcome \in {"ok", "create_fails", "copy_fails"} :
        /\ environment' = [environment EXCEPT !.upload = outcome]
        /\ tmp_exists' = (outcome # "create_fails")
        /\ pc' = IF outcome = "ok" THEN "extract" ELSE "done"
        /\ response' = IF outcome = "ok" THEN NoResponse ELSE Unhandled
    /\ UNCHANGED <<df_medicines, extracted_data, medicine_name, active_salts,
                   additional_details, lookup_calls>>

\* main.py:170
CallExtractor ==
    /\ pc = "extract"
    /\ \E outcome \in ExtractorOutcomes :
        /\ environment' = [environment EXCEPT !.extractor = outcome]
        /\ extracted_data' = extract_data_from_image(outcome)
    /\ pc' = "check"
    /\ UNCHANGED <<df_medicines, tmp_exists, medicine_name, active_salts,
                   additional_details, lookup_calls, response>>

\* main.py:172-177, and 190-192 when the request ends here
CheckError ==
    /\ pc = "check"
    /\ LET c == CheckExtracted(extracted_data) IN
        IF c.next = "lookup"
        THEN /\ medicine_name' = c.medicine_name
             /\ active_salts' = c.active_salts
             /\ pc' = "lookup"
             /\ UNCHANGED <<tmp_exists, response>>
        ELSE /\ response' = c.response
             /\ tmp_exists' = FALSE
             /\ pc' = "done"
             /\ UNCHANGED <<medicine_name, active_salts>>
    /\ UNCHANGED <<df_medicines, environment, extracted_data, additional_details,
                   lookup_calls>>

\* main.py:180
CallLookup ==
    /\ pc = "lookup"
    /\ additional_details' = find_medicine_details(df_medicines, medicine_name, active_salts)
    /\ lookup_calls' = lookup_calls + 1
    /\ pc' = "merge"
    /\ UNCHANGED <<df_medicines, tmp_exists, environment, extracted_data, medicine_name,
                   active_salts, response>>

\* main.py:183-192
MergeAndReturn ==
    /\ pc = "merge"
    /\ response' = MergeResponse(extracted_data, additional_details)
    /\ tmp_exists' = FALSE
    /\ pc' = "done"
    /\ UNCHANGED <<df_medicines, environment, extracted_data, medicine_name, active_salts,
                   additional_details, lookup_calls>>

Next == ReceiveUpload \/ CallExtractor \/ CheckError \/ CallLookup \/ MergeAndReturn

Spec == Init /\ [][Next]_vars

----------------------------------------------------------------------------
\* find_medicine_details on its own: every dataset with every pair of arguments.

InitLookup ==
    /\ df_medicines \in Datasets
    /\ pc = "lookup"
    /\ tmp_exists = TRUE
    /\ environment = [upload |-> "ok", extractor |-> NotYet]
    /\ extracted_data = NotYet
    /\ medicine_name \in NameInputs
    /\ active_salts \in SaltInputs
    /\ additional_details = NotYet
    /\ lookup_calls = 0
    /\ response = NoResponse

NextLookup == CallLookup

SpecLookup == InitLookup /\ [][NextLookup]_vars

----------------------------------------------------------------------------
\* The specification's reading of a match: pat occurs in the cell as a literal,
\* unanchored, case-insensitive substring; a blank cell matches nothing.

LiteralContains(cell, pat) ==
    /\ cell.tag = "str"
    /\ \E off \in 0..(Len(cell.s) - Len(pat)) :
          \A k \in 1..Len(pat) : Lower(pat[k]) = Lower(cell.s[off + k])

LiteralRows(rows, column, pat) ==
    {i \in 1..Len(rows) : LiteralContains(rows[i][column], pat)}

UsesAndSideEffects(row) ==
    Dict([k \in {"uses", "side_effects"} |->
            IF k = "uses" THEN row["Uses"] ELSE row["Side_effects"]])

\* a salt cut at its first "(" and trimmed
Normalized(salt) == Strip(SplitParenHead(salt))

\* the first salt, in input order, whose normalized form is not empty and occurs in
\* the composition of some row decides; 0 when there is none
FirstMatchingSalt(rows, salts) ==
    LET hits == {i \in 1..Len(salts) :
                    /\ Normalized(salts[i].s) # <<>>
                    /\ LiteralRows(rows, "Composition", Normalized(salts[i].s)) # {}}
    IN IF hits = {} THEN 0 ELSE Min(hits)

SpecSaltTier(rows, salts) ==
    IF salts.tag # "list" \/ FirstMatchingSalt(rows, salts.items) = 0 THEN Null
    ELSE UsesAndSideEffects(
            rows[Min(LiteralRows(rows, "Composition",
                        Normalized(salts.items[FirstMatchingSalt(rows, salts.items)].s)))])

NameMatches(rows, name) ==
    IF name.tag = "str" /\ Len(name.s) > 0
    THEN LiteralRows(rows, "Medicine Name", name.s) ELSE {}

\* arguments of the types the data model gives: a string or null, a list of strings
\* or null
WellTypedName(name) == name.tag \in {"null", "str"}
WellTypedSalts(salts) ==
    \/ salts.tag = "null"
    \/ salts.tag = "list" /\ \A i \in 1..Len(salts.items) : salts.items[i].tag = "str"

\* every row has a name and a composition
NoBlankCells(rows) ==
    \A i \in 1..Len(rows) :
        rows[i]["Medicine Name"].tag = "str" /\ rows[i]["Composition"].tag = "str"

Looked == pc = "merge"
NonEmptyDataset == df_medicines.loaded /\ Len(df_medicines.rows) > 0

\* C1: on a non-empty dataset, a non-empty medicine_name that occurs as a literal,
\* case-insensitive substring of some row's name makes find_medicine_details return
\* the uses/side_effects of the first such row, whatever active_salts is.
C1_FirstLiteralNameRow ==
    (Looked /\ NonEmptyDataset /\ NameMatches(df_medicines.rows, medicine_name) # {})
    => additional_details =
         UsesAndSideEffects(df_medicines.rows[Min(NameMatches(df_medicines.rows, medicine_name))])

\* C2: on a non-empty dataset where the name tier finds no row (or the name is null
\* or empty), find_medicine_details returns the first row whose composition contains
\* the normalized form of the first salt that matches any row, empty normalized
\* salts skipped and later salts not examined.  Stated here for arguments of the
\* data model's types and datasets without blank name or composition cells.
C2_FirstSaltFirstRow ==
    (/\ Looked /\ NonEmptyDataset /\ NoBlankCells(df_medicines.rows)
     /\ WellTypedName(medicine_name) /\ WellTypedSalts(active_salts)
     /\ NameMatches(df_medicines.rows, medicine_name) = {}
     /\ SpecSaltTier(df_medicines.rows, active_salts) # Null)
    => additional_details = SpecSaltTier(df_medicines.rows, active_salts)

\* C5: find_medicine_details never raises, for every dataset and every pair of
\* arguments the handler can pass.
C5_LookupNeverRaises == Looked => additional_details # Raised

\* C6: find_medicine_details returns no match exactly when the dataset is absent or
\* empty, or neither the name tier nor any normalized salt matches a row.  Stated
\* here for arguments of the data model's types and datasets without blank name or
\* composition cells.
C6_NoMatchExactly ==
    (/\ Looked /\ WellTypedName(medicine_name) /\ WellTypedSalts(active_salts)
     /\ NoBlankCells(df_medicines.rows))
    => ((additional_details = Null) <=>
           \/ ~NonEmptyDataset
           \/ /\ NameMatches(df_medicines.rows, medicine_name) = {}
              /\ SpecSaltTier(df_medicines.rows, active_salts) = Null)

----------------------------------------------------------------------------
\* The request.

Done == pc = "done"

\* C3: once the request has finished the temporary file no longer exists, on every
\* exit path, a failure while copying the upload included.
C3_TempFileRemoved == Done => ~tmp_exists

\* C8: the detail of an error response produced by extract_medicine_data is one of
\* the two fixed messages.
C8_OnlyFixedMessages ==
    response.kind = "HTTPException"
    => response.detail \in {Text("Failed to parse model response as JSON."),
                            Text("An internal error occurred during processing.")}

\* C4: a success envelope's data holds both uses and side_effects: the sentinel twice
\* when the lookup returned no match, the matched row's values as they are (a blank
\* cell included) when it returned a match.
C4_SuccessHasUsesAndSideEffects ==
    response.kind = "success"
    => LET data == response.data.d IN
       /\ {"uses", "side_effects"} \subseteq DOMAIN data
       /\ additional_details = Null
            => /\ data["uses"] = Text("No information found in our database.")
               /\ data["side_effects"] = Text("No information found in our database.")
       /\ additional_details # Null
            => /\ data["uses"] = additional_details.d["uses"]
               /\ data["side_effects"] = additional_details.d["side_effects"]
               /\ \E i \in 1..Len(df_medicines.rows) :
                    /\ data["uses"] = df_medicines.rows[i]["Uses"]
                    /\ data["side_effects"] = df_medicines.rows[i]["Side_effects"]

\* a success whose uses is the blank cell of the matched row
C4_Witness ==
    /\ response.kind = "success"
    /\ additional_details # Null
    /\ response.data.d["uses"] = NaN

HasErrorField(v) == v.tag = "dict" /\ "error" \in DOMAIN v.d
HasNoErrorField(v) == v.tag = "dict" /\ "error" \notin DOMAIN v.d

\* C7: when the extractor's record carries an error field the lookup is never called
\* and the request ends with a 500 whose detail is that field's value; the lookup is
\* called, once and after the extractor returned, only for a record without one.
C7_ErrorSkipsLookup ==
    /\ lookup_calls <= 1
    /\ HasErrorField(extracted_data) => lookup_calls = 0
    /\ lookup_calls = 1 => HasNoErrorField(extracted_data)
    /\ (Done /\ HasErrorField(extracted_data))
         => response = [kind |-> "HTTPException", status_code |-> 500,
                        detail |-> extracted_data.d["error"]]
    /\ (Done /\ HasNoErrorField(extracted_data)) => lookup_calls = 1

\* a request the extractor's error record ended, without a lookup
C7_Witness ==
    /\ Done
    /\ HasErrorField(extracted_data)
    /\ response.kind = "HTTPException"
    /\ lookup_calls = 0

\* The specification's reading of the clean-up: the fence markers are taken out
\* wherever they stand and white space around the value does not count.
RECURSIVE WithoutFences(_)
WithoutFences(text) ==
    IF text = <<>> THEN <<>>
    ELSE IF Len(text) >= Len(FenceJson) /\ SubSeq(text, 1, Len(FenceJson)) = FenceJson
         THEN WithoutFences(SubSeq(text, Len(FenceJson) + 1, Len(text)))
    ELSE IF Len(text) >= Len(Fence) /\ SubSeq(text, 1, Len(Fence)) = Fence
         THEN WithoutFences(SubSeq(text, Len(Fence) + 1, Len(text)))
    ELSE <<Head(text)>> \o WithoutFences(Tail(text))

NotWhitespace(item) == item \notin TextWhitespace
Stripped(text) == SelectSeq(WithoutFences(text), NotWhitespace)
ValidJson(text) == Len(Stripped(text)) = 1 /\ "json" \in DOMAIN Stripped(text)[1]

ExtractorReturned == environment.extractor # NotYet
OnlyError(message) == Dict([k \in {"error"} |-> message])

\* C9: extract_data_from_image never raises: a text that is not valid JSON after the
\* stripping gives the error-only record with the parse-failure message, a failure of
\* any other step the error-only record with the generic message, and otherwise the
\* parsed value is returned unchanged.
C9_ExtractorNeverRaises ==
    ExtractorReturned
    => LET o == environment.extractor IN
       /\ extracted_data # Raised
       /\ o.fails # "none"
            => extracted_data =
                 OnlyError(Text("An internal error occurred during processing."))
       /\ (o.fails = "none" /\ ~ValidJson(o.text))
            => extracted_data = OnlyError(Text("Failed to parse model response as JSON."))
       /\ (o.fails = "none" /\ ValidJson(o.text))
            => extracted_data = Stripped(o.text)[1].json

\* a fenced text that is no JSON gave the parse-failure record
C9_Witness ==
    /\ ExtractorReturned
    /\ environment.extractor.fails = "none"
    /\ Len(environment.extractor.text) > Len(FenceJson)
    /\ SubSeq(environment.extractor.text, 1, Len(FenceJson)) = FenceJson
    /\ extracted_data = OnlyError(Text("Failed to parse model response as JSON."))

DatasetValues(column) ==
    {df_medicines.rows[i][column] : i \in 1..Len(df_medicines.rows)}

\* C10: uses and side_effects of a success never come from the model: both are
\* overwritten with dataset values or the sentinel, and every other key of the
\* extracted record is left as it was.
C10_ModelNeverSuppliesUses ==
    response.kind = "success"
    => LET data == response.data.d IN
       /\ data["uses"] \in
            DatasetValues("Uses") \cup {Text("No information found in our database.")}
       /\ data["side_effects"] \in
            DatasetValues("Side_effects") \cup {Text("No information found in our database.")}
       /\ DOMAIN data = DOMAIN extracted_data.d \cup {"uses", "side_effects"}
       /\ \A k \in DOMAIN extracted_data.d \ {"uses", "side_effects"} :
            data[k] = extracted_data.d[k]

\* a success for a record in which the model had written uses and side_effects
C10_Witness ==
    /\ response.kind = "success"
    /\ {"uses", "side_effects"} \subseteq DOMAIN extracted_data.d
    /\ extracted_data.d["uses"] = ModelUses

====
